---- MODULE Spec2Model ----
(***************************************************************************)
(* A model of pymmcore_plus_sandbox's main window: APP with its MDA        *)
(* handlers and viewfinder handlers, and GridPlanTensorStoreHandler (the   *)
(* grid-aware tensorstore handler that flattens a grid of fields of view   *)
(* into one canvas), src/src/pymmcore_plus_sandbox/__init__.py, and        *)
(* Viewfinder, src/src/pymmcore_plus_sandbox/_viewfinder.py.               *)
(*                                                                         *)
(* Six specifications.  Spec: the sequenceStarted events handled by        *)
(* APP._on_mda_started, each constructing a handler, over all grid plans.  *)
(* SpecHandler starts from the handler of any rows x columns plan and      *)
(* applies its operations: _event_index_to_store_index and                 *)
(* get_shape_chunks_labels; SpecCalls counts the translations asked of a   *)
(* handler one after another.  SpecMda is the application during MDA      *)
(* runs: the runner's thread emits sequenceStarted, frameReady and         *)
(* sequenceFinished, snaps are made, and the main thread runs the queued   *)
(* handlers.  SpecLive is the viewfinder: snaps, live acquisitions started *)
(* and stopped, and the live timer.  SpecViewfinder calls the viewfinder's *)
(* set_data one time after another, the image format changing between the  *)
(* calls.  ret records the last call: its operation, the arguments, the    *)
(* exception raised ("" for none) and the value returned.                  *)
(*                                                                         *)
(* Libraries.  The field positions are those of useq's                     *)
(* GridRowsColumns.iter_grid_positions(): x = x0 + col * dx,               *)
(* y = y0 - row * dy with dx = fov_width * (1 - overlap[0] / 100),         *)
(* relative to the center or the top-left field, row-wise with or without  *)
(* snaking.  The base store layout is that of pymmcore-plus's              *)
(* TensorStoreHandler: the sequence's axis sizes, then (y, x).             *)
(*                                                                         *)
(* Numbers.  The grid plan's fov_width, fov_height and the field positions *)
(* are Python floats.  They are kept here as exact fixed-point integers:   *)
(* a field-of-view size f is held as f * FovDen, a position coordinate p   *)
(* as p * PosDen.  With integer overlap percentages every quantity the     *)
(* code computes is an exact multiple of 1/PosDen, and the input values    *)
(* below are dyadic, so the float arithmetic of the code is exact on them. *)
(* Python's int() of a float is TruncDiv: truncation toward zero.          *)
(***************************************************************************)
EXTENDS Integers, Sequences, FiniteSets, TLC

VARIABLES
    mda_data,      \* APP.mda_data: <<>> while the attribute is unset, else <<handler>>
    current_mda,   \* APP.current_mda: 0 for None, else the id of a View
    mdas,          \* APP.mdas: the list of View ids
    ret,           \* the last call observed: operation, arguments, exception, value
    viewers,       \* the View objects created so far, by id
    viewfinder,    \* APP.viewfinder: visible, live_view, the data it displays
    _live_timer_id,\* APP._live_timer_id: <<>> for None, else <<timer id>>
    timers,        \* the ids of the running Qt timers of the APP object
    core,          \* the CMMCorePlus: MDA runner, camera, current image
    queue,         \* the calls posted to the GUI thread by ensure_main_thread
    ncalls         \* the translations a handler has been asked for: 0, 1, or 2
                   \* for two or more

vars == <<mda_data, current_mda, mdas, ret, viewers, viewfinder, _live_timer_id,
          timers, core, queue, ncalls>>

\* the state of the viewfinder and of the live timer
live == <<viewfinder, _live_timer_id, timers>>

\* the state of the MDA viewers and of the store handler
mda == <<mda_data, current_mda, mdas, viewers>>

---------------------------------------------------------------------------
(* Bounds of the model *)

MaxRows == 2
MaxColumns == 2
MaxMdas == 2
MaxFrames == 2
MaxSnaps == 1
MaxLives == 2

---------------------------------------------------------------------------
(* Fixed-point representation *)

FovDen == 1 + 1
PosDen == FovDen * 2 * 100

\* int(a / b) for b > 0: Python's int() truncates toward zero
TruncDiv(a, b) == IF a >= 0 THEN a \div b ELSE -((-a) \div b)

\* math.floor(a / b) for b > 0
FloorDiv(a, b) == a \div b

min(a, b) == IF a <= b THEN a ELSE b

Range(s) == {s[i] : i \in 1..Len(s)}

\* list.index(v): the first position holding v (1-based here)
index(s, v) == CHOOSE i \in 1..Len(s) : s[i] = v /\ \A j \in 1..(i - 1) : s[j] # v

\* without with a fault: the slice bounds one too far, s[:i + 1] + s[i + 2:]
without_mut(s, i) == SubSeq(s, 1, i) \o SubSeq(s, i + 2, Len(s))

\* s[:i] + s[i + 1:] for the 1-based position i
without(s, i) == SubSeq(s, 1, i - 1) \o SubSeq(s, i + 1, Len(s))

---------------------------------------------------------------------------
(* Inputs: the grid plans of the sequences handed to sequenceStarted *)

\* (fov_width, fov_height), times FovDen: (10.0, 10.0) and (2.5, 10.0)
FovSizes == {<<20, 20>>, <<5, 20>>}

\* overlap, in percent
Overlaps == {<<0, 0>>, <<10, 0>>, <<0, 10>>}

RelativeTo == {"center", "top_left"}

OrderMode == {"row_wise_snake", "row_wise"}

GridRowsColumns ==
    {[kind |-> "GridRowsColumns", rows |-> r, columns |-> c,
      fov_width |-> f[1], fov_height |-> f[2], overlap |-> o,
      relative_to |-> rel, mode |-> m] :
        r \in 1..MaxRows, c \in 1..MaxColumns, f \in FovSizes, o \in Overlaps,
        rel \in RelativeTo, m \in OrderMode}

\* a sequence without a grid plan, and the other plan classes of useq
OtherGridPlans == {[kind |-> k] : k \in {"None", "GridFromEdges", "RandomPoints"}}

GridPlans == GridRowsColumns \cup OtherGridPlans

\* mmc.getBytesPerPixel()
BytesPerPixel == {1, 2, 3, 4}

\* the (height, width) of a camera frame
FrameShapes == {<<3, 5>>}

---------------------------------------------------------------------------
(* useq's GridRowsColumns.iter_grid_positions(), as called with no         *)
(* arguments: the relative positions of the fields, in acquisition order   *)

\* (dx, dy) = fov - fov * overlap / 100, times PosDen
_step_size(gp) ==
    <<2 * gp.fov_width * (100 - gp.overlap[1]),
      2 * gp.fov_height * (100 - gp.overlap[2])>>

_offset_x(gp, dx) ==
    IF gp.relative_to = "center" THEN TruncDiv(-((gp.columns - 1) * dx), 2) ELSE 0

_offset_y(gp, dy) ==
    IF gp.relative_to = "center" THEN TruncDiv((gp.rows - 1) * dy, 2) ELSE 0

\* the (row, column) of the i-th field, i counted from 0
generate_indices(mode, rows, columns, i) ==
    LET r == i \div columns
        k == i % columns
    IN  IF mode = "row_wise_snake" /\ r % 2 = 1
        THEN <<r, columns - 1 - k>>
        ELSE <<r, k>>

\* iter_grid_positions with a fault: the fields of the first row only
iter_grid_positions_mut(gp) ==
    LET dx == 2 * gp.fov_width * (100 - gp.overlap[1])
        x0 == IF gp.relative_to = "center" THEN TruncDiv(-((gp.columns - 1) * dx), 2) ELSE 0
    IN  [i \in 1..gp.columns |-> [x |-> x0 + (i - 1) * dx, y |-> 0]]

iter_grid_positions(gp) ==
    LET d == _step_size(gp)
        x0 == _offset_x(gp, d[1])
        y0 == _offset_y(gp, d[2])
    IN  [i \in 1..(gp.rows * gp.columns) |->
            LET rc == generate_indices(gp.mode, gp.rows, gp.columns, i - 1)
            IN  [x |-> x0 + rc[2] * d[1], y |-> y0 - rc[1] * d[2]]]

---------------------------------------------------------------------------
(* GridPlanTensorStoreHandler *)

\* min_loop with a fault: the y minimum taken over pos.x
RECURSIVE min_loop_mut(_, _, _)
min_loop_mut(m, ps, i) ==
    IF i > Len(ps) THEN m
    ELSE min_loop_mut(<<min(m[1], ps[i].x), min(m[2], ps[i].x)>>, ps, i + 1)

\* the loop of lines 525-527, from position i on
RECURSIVE min_loop(_, _, _)
min_loop(m, ps, i) ==
    IF i > Len(ps) THEN m
    ELSE min_loop(<<min(m[1], ps[i].x), min(m[2], ps[i].y)>>, ps, i + 1)

\* a variant of canvas_w: the width from the columns
canvas_w_mut(gp) == (gp.fov_width * gp.columns) - (FovDen * gp.overlap[1] * (gp.columns - 1))

\* w of line 518, times FovDen
canvas_w(gp) == (gp.fov_width * gp.rows) - (FovDen * gp.overlap[1] * (gp.rows - 1))

\* a variant of canvas_h: the height from fov_height and the second overlap
canvas_h_mut(gp) == (gp.fov_height * gp.rows) - (FovDen * gp.overlap[2] * (gp.rows - 1))

\* h of line 519, times FovDen
canvas_h(gp) == (gp.fov_width * gp.rows) - (FovDen * gp.overlap[1] * (gp.rows - 1))

\* the handler with its grid plan evaluated, or the exception raised
_evaluate_grid_plan(self) ==
    LET gp == self._sequence.grid_plan
    IN  IF gp.kind = "GridRowsColumns"
        THEN LET ps == iter_grid_positions(gp)
             IN  [raised |-> "",
                  self |-> <<[_nd_storage |-> self._nd_storage,
                              _sequence |-> self._sequence,
                              _width |-> TruncDiv(canvas_w(gp), FovDen),
                              _height |-> TruncDiv(canvas_h(gp), FovDen),
                              _fov |-> <<TruncDiv(gp.fov_width, FovDen),
                                         TruncDiv(gp.fov_height, FovDen)>>,
                              _min |-> min_loop(<<0, 0>>, ps, 1),
                              _idx_to_pos |-> ps,
                              _r |-> gp.rows,
                              _c |-> gp.columns]>>]
        ELSE [raised |-> "ValueError", self |-> <<>>]

\* GridPlanTensorStoreHandler(sequence, ...): TensorStoreHandler.__init__ sets
\* _nd_storage, then the grid plan is evaluated
GridPlanTensorStoreHandler(sequence) ==
    _evaluate_grid_plan([_nd_storage |-> TRUE, _sequence |-> sequence])

\* index values: a Python int, or slice(start, stop)
int(v) == [type |-> "int", v |-> v]

slice(start, stop) == [type |-> "slice", start |-> start, stop |-> stop]

\* list[i] of Python for an in-range i, negative i counting from the end
getitem(list, i) == list[(IF i >= 0 THEN i ELSE Len(list) + i) + 1]

\* grid_slices with a fault: x paired with the height and y with the width
grid_slices_mut(self, g) ==
    LET pos == self._idx_to_pos[(IF g >= 0 THEN g ELSE Len(self._idx_to_pos) + g) + 1]
        x == TruncDiv(pos.x - self._min[1], PosDen)
        y == TruncDiv(pos.y - self._min[2], PosDen)
    IN  <<[type |-> "slice", start |-> x, stop |-> x + self._fov[2]],
          [type |-> "slice", start |-> y, stop |-> y + self._fov[1]]>>

\* lines 499-500 and 508: the canvas region of the field at list index g
grid_slices(self, g) ==
    LET pos == getitem(self._idx_to_pos, g)
        x == TruncDiv(pos.x - self._min[1], PosDen)
        y == TruncDiv(pos.y - self._min[2], PosDen)
    IN  <<slice(x, x + self._fov[1]), slice(y, y + self._fov[2])>>

\* _event_index_to_store_index with a fault: the grid key is popped from the
\* caller's mapping and the translated field becomes the handler's origin
_event_index_to_store_index_mut(self, idx) ==
    IF Len(idx) = 0
    THEN [raised |-> "ValueError", value |-> <<>>, self |-> self, index |-> idx]
    ELSE LET keys == [i \in 1..Len(idx) |-> idx[i].key]
             values == [i \in 1..Len(idx) |-> idx[i].val]
         IN  IF "g" \in Range(keys)
             THEN LET g_idx == index(keys, "g")
                      g == values[g_idx].v
                      n == Len(self._idx_to_pos)
                  IN  IF g >= n \/ g < -n
                      THEN [raised |-> "IndexError", value |-> <<>>,
                            self |-> self, index |-> idx]
                      ELSE LET pos == getitem(self._idx_to_pos, g)
                               keys2 == without(keys, g_idx) \o <<"x", "y">>
                               values2 == without(values, g_idx) \o grid_slices(self, g)
                           IN  [raised |-> "",
                                value |-> [i \in 1..Len(keys2) |->
                                             [key |-> keys2[i], val |-> values2[i]]],
                                self |-> [self EXCEPT !._min = <<pos.x, pos.y>>],
                                index |-> without(idx, g_idx)]
             ELSE [raised |-> "",
                   value |-> [i \in 1..Len(keys) |->
                                [key |-> keys[i], val |-> values[i]]],
                   self |-> self, index |-> idx]

\* GridPlanTensorStoreHandler._event_index_to_store_index(index).  The index
\* is the ordered mapping as a sequence of [key, val]; the value returned
\* stands for self._ts.d[*keys][*values]: the ordered keys with their values
\* self and index are the handler and the caller's mapping after the call
_event_index_to_store_index(self, idx) ==
    IF ~self._nd_storage
    THEN [raised |-> "NotImplementedError", value |-> <<>>, self |-> self, index |-> idx]
    ELSE IF Len(idx) = 0
    THEN \* keys, values = [...zip(*{}.items())]: nothing to unpack
         [raised |-> "ValueError", value |-> <<>>, self |-> self, index |-> idx]
    ELSE LET keys == [i \in 1..Len(idx) |-> idx[i].key]
             values == [i \in 1..Len(idx) |-> idx[i].val]
         IN  IF "g" \in Range(keys)
             THEN LET g_idx == index(keys, "g")
                      g == values[g_idx].v
                      n == Len(self._idx_to_pos)
                  IN  IF g >= n \/ g < -n
                      THEN [raised |-> "IndexError", value |-> <<>>,
                            self |-> self, index |-> idx]
                      ELSE LET keys2 == without(keys, g_idx) \o <<"x", "y">>
                               values2 == without(values, g_idx) \o grid_slices(self, g)
                           IN  [raised |-> "",
                                value |-> [i \in 1..Len(keys2) |->
                                             [key |-> keys2[i], val |-> values2[i]]],
                                self |-> self, index |-> idx]
             ELSE [raised |-> "",
                   value |-> [i \in 1..Len(keys) |->
                                [key |-> keys[i], val |-> values[i]]],
                   self |-> self, index |-> idx]

\* TensorStoreHandler.get_shape_chunks_labels(frame_shape, seq) of pymmcore-plus
\* for a sequence with the non-empty axis sizes `sizes` (a sequence of
\* [label, size]): one chunk per frame, the frame's (y, x) last
base_shape_chunks_labels(frame_shape, sizes) ==
    [shape |-> [i \in 1..Len(sizes) |-> sizes[i].size] \o frame_shape,
     chunks |-> [i \in 1..Len(sizes) |-> 1] \o frame_shape,
     labels |-> [i \in 1..Len(sizes) |-> sizes[i].label] \o <<"y", "x">>]

\* get_shape_chunks_labels with a fault: the grid axis is left in chunks
get_shape_chunks_labels_mut(self, frame_shape, sizes) ==
    LET base == base_shape_chunks_labels(frame_shape, sizes)
        labels == base.labels
    IN  IF "g" \in Range(labels)
        THEN LET g_idx == index(labels, "g")
                 x_idx == index(labels, "x")
                 y_idx == index(labels, "y")
                 shape1 == [base.shape EXCEPT ![x_idx] = self._width]
                 shape2 == [shape1 EXCEPT ![y_idx] = self._height]
             IN  [shape |-> without(shape2, g_idx),
                  chunks |-> base.chunks,
                  labels |-> without(labels, g_idx)]
        ELSE base

\* GridPlanTensorStoreHandler.get_shape_chunks_labels(frame_shape, seq)
get_shape_chunks_labels(self, frame_shape, sizes) ==
    LET base == base_shape_chunks_labels(frame_shape, sizes)
        labels == base.labels
    IN  IF "g" \in Range(labels)
        THEN LET g_idx == index(labels, "g")
                 x_idx == index(labels, "x")
                 y_idx == index(labels, "y")
                 shape1 == [base.shape EXCEPT ![x_idx] = self._width]
                 shape2 == [shape1 EXCEPT ![y_idx] = self._height]
             IN  [shape |-> without(shape2, g_idx),
                  chunks |-> without(base.chunks, g_idx),
                  labels |-> without(labels, g_idx)]
        ELSE base

\* _utils._data_type: the tensorstore dtype, or the exception raised
_data_type(px_type) ==
    IF px_type = 1 THEN [raised |-> "", value |-> "uint8"]
    ELSE IF px_type = 2 THEN [raised |-> "", value |-> "uint16"]
    ELSE IF px_type = 4 THEN [raised |-> "", value |-> "uint32"]
    ELSE [raised |-> "Exception", value |-> ""]

---------------------------------------------------------------------------
(* Inputs of the handler's operations *)

\* the acquisition axes of an event index: time, channel, grid position
EventAxes == {"t", "c", "g"}

\* the ordered key lists of an index: the sequences of distinct axes
KeyLists ==
    UNION {{k \in [1..n -> EventAxes] : \A i, j \in 1..n : i # j => k[i] # k[j]} :
              n \in 0..Cardinality(EventAxes)}

\* the indices given to a handler of n fields: the grid axis ranges over the
\* fields and past both ends, t is 1 and c is 0
Indices(n) ==
    UNION {{[i \in 1..Len(k) |->
               [key |-> k[i],
                val |-> int(IF k[i] = "g" THEN g ELSE IF k[i] = "t" THEN 1 ELSE 0)]] :
               g \in IF "g" \in Range(k) THEN -(n + 1)..n ELSE {0}} :
              k \in KeyLists}

---------------------------------------------------------------------------
(* APP *)

\* View(): an NDViewer without data has no _data_wrapper attribute (<<>>)
View == [_data_wrapper |-> <<>>, current_index |-> <<>>]

\* Viewfinder(mmc), lines 157-171: hidden, not live, no backing array
Viewfinder ==
    [visible |-> FALSE, live_view |-> FALSE, ts_array |-> <<>>, ts_shape |-> <<0, 0>>,
     bytes_per_pixel |-> 0]

\* the core as the application finds it: no MDA running, the camera idle;
\* sequence is the MDA sequence last run, sequences counts the sequences
\* run, frames the frames of that sequence, lives the continuous
\* acquisitions started, image the images snapped
CMMCorePlus ==
    [mda_running |-> FALSE, sequence |-> <<>>, sequences |-> 0, frames |-> 0,
     acquiring |-> FALSE, lives |-> 0, image |-> 0]

Init ==
    /\ mda_data = <<>>
    /\ current_mda = 0
    /\ mdas = <<>>
    /\ ret = [op |-> "__init__", args |-> <<>>, raised |-> "", value |-> <<>>]
    /\ viewers = <<>>
    /\ viewfinder = Viewfinder
    /\ _live_timer_id = <<>>
    /\ timers = {}
    /\ core = CMMCorePlus
    /\ queue = <<>>
    /\ ncalls = 0

\* _on_mda_started with a fault: the viewer is created and appended before the
\* handler is constructed
_on_mda_started_mut(sequence, px_type) ==
    LET dt == _data_type(px_type)
        call == [op |-> "_on_mda_started", args |-> <<sequence.grid_plan.kind, px_type>>,
                 raised |-> "", value |-> <<>>]
    IN  IF dt.raised # ""
        THEN /\ ret' = [call EXCEPT !.raised = dt.raised]
             /\ UNCHANGED <<mda_data, current_mda, mdas, viewers>>
        ELSE \E h \in {GridPlanTensorStoreHandler(sequence)} :
             /\ current_mda' = Len(mdas) + 1
             /\ mdas' = Append(mdas, Len(mdas) + 1)
             /\ viewers' = Append(viewers, View)
             /\ IF h.raised # ""
                THEN /\ ret' = [call EXCEPT !.raised = h.raised]
                     /\ UNCHANGED mda_data
                ELSE /\ mda_data' = h.self
                     /\ ret' = [call EXCEPT !.raised = ""]

\* APP._on_mda_started(sequence), with the core's bytes per pixel px_type; the
\* handler is constructed once, after _data_type has returned
_on_mda_started(sequence, px_type) ==
    LET dt == _data_type(px_type)
        call == [op |-> "_on_mda_started", args |-> <<sequence.grid_plan.kind, px_type>>,
                 raised |-> "", value |-> <<>>]
    IN  IF dt.raised # ""
        THEN /\ ret' = [call EXCEPT !.raised = dt.raised]
             /\ UNCHANGED <<mda_data, current_mda, mdas, viewers>>
        ELSE \E h \in {GridPlanTensorStoreHandler(sequence)} :
             IF h.raised # ""
             THEN /\ ret' = [call EXCEPT !.raised = h.raised]
                  /\ UNCHANGED <<mda_data, current_mda, mdas, viewers>>
             ELSE /\ mda_data' = h.self
                  /\ current_mda' = Len(viewers) + 1
                  /\ viewers' = Append(viewers, View)
                  /\ mdas' = Append(mdas, Len(viewers) + 1)
                  /\ ret' = [call EXCEPT !.raised = ""]

SequenceStarted ==
    \E gp \in GridPlans, px_type \in BytesPerPixel :
        /\ Len(mdas) < MaxMdas
        /\ _on_mda_started([grid_plan |-> gp], px_type)
        /\ UNCHANGED <<live, core, queue, ncalls>>

Next ==
    \/ SequenceStarted

Spec == Init /\ [][Next]_vars

---------------------------------------------------------------------------
(* The handlers of the MDA frames and of the viewfinder *)

\* the grid key popped from a copy of the event index (lines 421-424)
pop_g(idx) ==
    LET keys == [i \in 1..Len(idx) |-> idx[i].key]
    IN  IF "g" \in Range(keys) THEN without(idx, index(keys, "g")) ELSE idx

\* the region of a translated index lies in the store's domain: x within the
\* canvas width, y within the canvas height
in_domain(self, ts_index) ==
    \A i \in 1..Len(ts_index) :
        /\ ts_index[i].key = "x" =>
               (0 <= ts_index[i].val.start /\ ts_index[i].val.stop <= self._width)
        /\ ts_index[i].key = "y" =>
               (0 <= ts_index[i].val.start /\ ts_index[i].val.stop <= self._height)

\* TensorStoreHandler.frameReady(frame, event, meta) of pymmcore-plus, on the
\* grid handler: the event index is translated and the frame written at the
\* translated index; tensorstore refuses a region outside the store's domain
frameReady(self, event) ==
    LET t == _event_index_to_store_index(self, event.index)
    IN  IF t.raised # "" THEN [raised |-> t.raised, self |-> t.self]
        ELSE IF ~in_domain(t.self, t.value) THEN [raised |-> "OUT_OF_RANGE", self |-> t.self]
        ELSE [raised |-> "", self |-> t.self]

\* the handler's store, named by the sequence the handler was constructed for
store(self) == self._sequence.uid

\* _on_mda_finished with a fault: the finished sequence's viewer is dropped
_on_mda_finished_mut(sequence) ==
    /\ ret' = [op |-> "_on_mda_finished", args |-> <<sequence.uid>>,
               raised |-> "", value |-> <<>>]
    /\ current_mda' = 0
    /\ UNCHANGED <<mda_data, mdas, viewers>>

\* _on_mda_frame with a fault: the viewer is rebound to the store on every
\* frame and keeps the grid key in its index
_on_mda_frame_mut(event) ==
    LET call == [op |-> "_on_mda_frame", args |-> <<event.index, event.sequence>>,
                 raised |-> "", value |-> <<>>]
    IN  IF mda_data = <<>>
        THEN /\ ret' = [call EXCEPT !.raised = "AttributeError"]
             /\ UNCHANGED <<mda_data, current_mda, mdas, viewers>>
        ELSE \E fr \in {frameReady(mda_data[1], event)} :
             /\ mda_data' = <<fr.self>>
             /\ UNCHANGED <<current_mda, mdas>>
             /\ IF fr.raised # ""
                THEN /\ ret' = [call EXCEPT !.raised = fr.raised]
                     /\ UNCHANGED viewers
                ELSE /\ viewers' = [viewers EXCEPT ![current_mda] =
                                      [_data_wrapper |-> <<store(fr.self)>>,
                                       current_index |-> event.index]]
                     /\ ret' = [call EXCEPT !.value = <<store(fr.self), current_mda, TRUE>>]

\* APP._on_mda_frame(image, event), lines 415-425.  The value recorded is the
\* store the frame was written to, the viewer that displays it and whether
\* the viewer's set_data was called
_on_mda_frame(event) ==
    LET call == [op |-> "_on_mda_frame", args |-> <<event.index, event.sequence>>,
                 raised |-> "", value |-> <<>>]
    IN  IF mda_data = <<>>
        THEN \* no sequence has installed a handler: self.mda_data is unset
             /\ ret' = [call EXCEPT !.raised = "AttributeError"]
             /\ UNCHANGED <<mda_data, current_mda, mdas, viewers>>
        ELSE \E fr \in {frameReady(mda_data[1], event)} :
             /\ mda_data' = <<fr.self>>
             /\ UNCHANGED <<current_mda, mdas>>
             /\ IF fr.raised # ""
                THEN /\ ret' = [call EXCEPT !.raised = fr.raised]
                     /\ UNCHANGED viewers
                ELSE LET v == viewers[current_mda]
                         unbound == v._data_wrapper = <<>>
                         bound == IF unbound
                                  THEN [v EXCEPT !._data_wrapper = <<store(fr.self)>>]
                                  ELSE v
                     IN  /\ viewers' = [viewers EXCEPT ![current_mda] =
                                           [bound EXCEPT !.current_index = pop_g(event.index)]]
                         /\ ret' = [call EXCEPT !.value =
                                       <<store(fr.self), current_mda, unbound>>]

\* APP._on_mda_finished(sequence), lines 444-446: pass
_on_mda_finished(sequence) ==
    /\ ret' = [op |-> "_on_mda_finished", args |-> <<sequence.uid>>,
               raised |-> "", value |-> <<>>]
    /\ UNCHANGED <<mda_data, current_mda, mdas, viewers>>

\* Viewfinder._update_datastore(), lines 175-191, with the core's image
\* format fmt; ts_shape and bytes_per_pixel are assigned before the array is
\* opened; opened tells whether a new array was opened and the viewer bound
\* to it
_update_datastore(self, fmt) ==
    IF \/ self.ts_array = <<>>
       \/ self.ts_shape[1] # fmt.height
       \/ self.ts_shape[2] # fmt.width
       \/ self.bytes_per_pixel # fmt.bytes_per_pixel
    THEN LET s1 == [self EXCEPT !.ts_shape = <<fmt.height, fmt.width>>,
                                !.bytes_per_pixel = fmt.bytes_per_pixel]
             dt == _data_type(fmt.bytes_per_pixel)
         IN  IF dt.raised # "" THEN [raised |-> dt.raised, self |-> s1, opened |-> FALSE]
             ELSE [raised |-> "",
                   self |-> [s1 EXCEPT !.ts_array =
                               <<[shape |-> s1.ts_shape, dtype |-> dt.value, data |-> 0]>>],
                   opened |-> TRUE]
    ELSE [raised |-> "", self |-> self, opened |-> FALSE]

\* Viewfinder.set_data(data), lines 193-203: data is the image taken in the
\* format fmt; array[:] = data needs an array of the image's shape
set_data(self, data, fmt) ==
    LET u == _update_datastore(self, fmt)
    IN  IF u.raised # "" THEN u
        ELSE IF u.self.ts_array[1].shape # <<fmt.height, fmt.width>>
        THEN [raised |-> "ValueError", self |-> u.self, opened |-> u.opened]
        ELSE [raised |-> "",
              self |-> [u.self EXCEPT !.ts_array = <<[u.self.ts_array[1] EXCEPT !.data = data]>>],
              opened |-> u.opened]

\* APP._set_up_viewfinder(), lines 358-364
_set_up_viewfinder(self) == [self EXCEPT !.visible = TRUE]

\* _handle_snap with a fault: the running MDA is not looked at
_handle_snap_mut(is_running, image, fmt) ==
    \E r \in {set_data([viewfinder EXCEPT !.visible = TRUE], image, fmt)} :
        /\ viewfinder' = r.self
        /\ ret' = [op |-> "_handle_snap", args |-> <<is_running, image, fmt>>,
                   raised |-> r.raised, value |-> <<>>]

\* APP._handle_snap(), lines 368-374, with mmc.mda.is_running(), the core's
\* current image and its format
_handle_snap(is_running, image, fmt) ==
    LET call == [op |-> "_handle_snap", args |-> <<is_running, image, fmt>>,
                 raised |-> "", value |-> <<>>]
    IN  IF is_running
        THEN /\ ret' = call
             /\ UNCHANGED viewfinder
        ELSE \E r \in {set_data(_set_up_viewfinder(viewfinder), image, fmt)} :
             /\ viewfinder' = r.self
             /\ ret' = [call EXCEPT !.raised = r.raised]

\* QObject.startTimer: a timer id that is not in use
startTimer == CHOOSE id \in 1..(Cardinality(timers) + 1) : id \notin timers

\* APP._start_live_viewer(), lines 378-387
_start_live_viewer ==
    /\ viewfinder' = [_set_up_viewfinder(viewfinder) EXCEPT !.live_view = TRUE]
    /\ _live_timer_id' = <<startTimer>>
    /\ timers' = timers \cup {startTimer}
    /\ ret' = [op |-> "_start_live_viewer", args |-> <<>>, raised |-> "", value |-> <<>>]

\* _stop_live_viewer with a fault: the timer is not killed
_stop_live_viewer_mut ==
    /\ ret' = [op |-> "_stop_live_viewer", args |-> <<>>, raised |-> "", value |-> <<>>]
    /\ IF viewfinder.live_view
       THEN /\ viewfinder' = [viewfinder EXCEPT !.live_view = FALSE]
            /\ _live_timer_id' = <<>>
            /\ UNCHANGED timers
       ELSE UNCHANGED <<viewfinder, _live_timer_id, timers>>

\* APP._stop_live_viewer(cameraLabel), lines 389-394
_stop_live_viewer ==
    /\ ret' = [op |-> "_stop_live_viewer", args |-> <<>>, raised |-> "", value |-> <<>>]
    /\ IF viewfinder.live_view
       THEN /\ viewfinder' = [viewfinder EXCEPT !.live_view = FALSE]
            /\ timers' = timers \ {_live_timer_id[1]}
            /\ _live_timer_id' = <<>>
       ELSE UNCHANGED <<viewfinder, _live_timer_id, timers>>

\* APP.timerEvent -> _update_viewer(), lines 396-413, with
\* mmc.getRemainingImageCount(), the last image and its format.  RuntimeError
\* and IndexError are swallowed; no other exception is
_update_viewer(remaining, image, fmt) ==
    LET call == [op |-> "timerEvent", args |-> <<remaining, image, fmt>>,
                 raised |-> "", value |-> <<>>]
    IN  IF remaining = 0
        THEN /\ ret' = call
             /\ UNCHANGED viewfinder
        ELSE \E r \in {set_data(viewfinder, image, fmt)} :
             /\ viewfinder' = r.self
             /\ ret' = [call EXCEPT !.raised =
                           IF r.raised \in {"RuntimeError", "IndexError"} THEN "" ELSE r.raised]

---------------------------------------------------------------------------
(* The application with its threads.  The MDA runner's events are emitted  *)
(* from its worker thread; a handler decorated with ensure_main_thread is  *)
(* called directly when the event is emitted from the main thread and is   *)
(* posted to the main thread's queue otherwise; the other handlers run     *)
(* where the event is emitted.  A handler runs to completion.              *)

Threads == {"main", "worker"}

\* the sequences run: 1 x 1, 1 x 2 and 2 x 2 grids of square fields of 10.0
\* without overlap, and a sequence without a grid plan
MdaPlans ==
    {[kind |-> "GridRowsColumns", rows |-> rc[1], columns |-> rc[2],
      fov_width |-> 10 * FovDen, fov_height |-> 10 * FovDen, overlap |-> <<0, 0>>,
      relative_to |-> "top_left", mode |-> "row_wise"] :
        rc \in {<<1, 1>>, <<1, 2>>, <<2, 2>>}}
    \cup {[kind |-> "None"]}

\* the format of the core's image: height, width, bytes per pixel
ImageFormats ==
    {[height |-> fs[1], width |-> fs[2], bytes_per_pixel |-> b] :
        fs \in FrameShapes, b \in BytesPerPixel}

\* the index of the event of time point t of a sequence: one event per field
\* of its grid plan
EventIndices(sequence, t) ==
    IF sequence.grid_plan.kind = "GridRowsColumns"
    THEN {<<[key |-> "t", val |-> int(t)], [key |-> "g", val |-> int(g)]>> :
             g \in 0..(sequence.grid_plan.rows * sequence.grid_plan.columns - 1)}
    ELSE {<<[key |-> "t", val |-> int(t)]>>}

\* mmc.run_mda(sequence): the runner's thread emits sequenceStarted
RunMda ==
    /\ ~core.mda_running
    /\ core.sequences < MaxMdas
    /\ \E gp \in MdaPlans :
          LET sequence == [grid_plan |-> gp, uid |-> core.sequences + 1]
          IN  /\ core' = [core EXCEPT !.mda_running = TRUE, !.sequence = <<sequence>>,
                                      !.sequences = @ + 1, !.frames = 0]
              /\ queue' = Append(queue, [op |-> "_on_mda_started", sequence |-> sequence])
    /\ UNCHANGED <<mda, live, ret, ncalls>>

\* the runner's thread emits frameReady for the next event of the sequence
FrameReady ==
    /\ core.mda_running
    /\ core.frames < MaxFrames
    /\ \E idx \in EventIndices(core.sequence[1], core.frames) :
          queue' = Append(queue, [op |-> "_on_mda_frame",
                                  event |-> [index |-> idx, sequence |-> core.sequence[1].uid]])
    /\ core' = [core EXCEPT !.frames = @ + 1]
    /\ UNCHANGED <<mda, live, ret, ncalls>>

\* the runner's thread emits sequenceFinished; _on_mda_finished runs there
SequenceFinished ==
    /\ core.mda_running
    /\ core' = [core EXCEPT !.mda_running = FALSE]
    /\ _on_mda_finished(core.sequence[1])
    /\ UNCHANGED <<live, queue, ncalls>>

\* mmc.snapImage() in some thread: imageSnapped
ImageSnapped ==
    /\ core.image < MaxSnaps
    /\ core' = [core EXCEPT !.image = @ + 1]
    /\ \E thread \in Threads :
          IF thread = "main"
          THEN /\ \E fmt \in ImageFormats :
                     _handle_snap(core.mda_running, core.image + 1, fmt)
               /\ UNCHANGED <<queue, _live_timer_id, timers>>
          ELSE /\ queue' = Append(queue, [op |-> "_handle_snap"])
               /\ UNCHANGED <<live, ret>>
    /\ UNCHANGED <<mda, ncalls>>

\* mmc.startContinuousSequenceAcquisition() in some thread, the camera idle
ContinuousSequenceAcquisitionStarted ==
    /\ ~core.acquiring
    /\ core.lives < MaxLives
    /\ core' = [core EXCEPT !.acquiring = TRUE, !.lives = @ + 1]
    /\ \E thread \in Threads :
          IF thread = "main"
          THEN _start_live_viewer /\ UNCHANGED queue
          ELSE /\ queue' = Append(queue, [op |-> "_start_live_viewer"])
               /\ UNCHANGED <<live, ret>>
    /\ UNCHANGED <<mda, ncalls>>

\* mmc.stopSequenceAcquisition() in some thread, the camera acquiring or not:
\* _stop_live_viewer runs where sequenceAcquisitionStopped is emitted
SequenceAcquisitionStopped ==
    /\ core' = [core EXCEPT !.acquiring = FALSE]
    /\ _stop_live_viewer
    /\ UNCHANGED <<mda, queue, ncalls>>

\* the main thread runs the call at the head of its queue
MainThread ==
    /\ queue # <<>>
    /\ queue' = Tail(queue)
    /\ LET call == Head(queue)
       IN  CASE call.op = "_on_mda_started" ->
                  /\ \E fmt \in ImageFormats :
                         _on_mda_started(call.sequence, fmt.bytes_per_pixel)
                  /\ UNCHANGED live
             [] call.op = "_on_mda_frame" ->
                  /\ _on_mda_frame(call.event)
                  /\ UNCHANGED live
             [] call.op = "_handle_snap" ->
                  /\ \E fmt \in ImageFormats :
                         _handle_snap(core.mda_running, core.image, fmt)
                  /\ UNCHANGED <<mda, _live_timer_id, timers>>
             [] call.op = "_start_live_viewer" ->
                  /\ _start_live_viewer
                  /\ UNCHANGED mda
    /\ UNCHANGED <<core, ncalls>>

\* a live timer fires in the main thread
TimerEvent ==
    /\ timers # {}
    /\ \E remaining \in {0, 1}, fmt \in ImageFormats :
          _update_viewer(remaining, core.image, fmt)
    /\ UNCHANGED <<mda, _live_timer_id, timers, core, queue, ncalls>>

\* the application during MDA runs: the runner's events and snaps
NextMda ==
    \/ RunMda
    \/ FrameReady
    \/ SequenceFinished
    \/ ImageSnapped
    \/ MainThread

SpecMda == Init /\ [][NextMda]_vars

\* the application's viewfinder: snaps, live acquisitions and the live timer
NextLive ==
    \/ ImageSnapped
    \/ ContinuousSequenceAcquisitionStarted
    \/ SequenceAcquisitionStopped
    \/ MainThread
    \/ TimerEvent

SpecLive == Init /\ [][NextLive]_vars

---------------------------------------------------------------------------
(* The operations of a constructed handler, applied to the handler of any   *)
(* sequence with a rows x columns grid plan                                 *)

InitHandler ==
    \E gp \in GridRowsColumns :
        /\ mda_data = GridPlanTensorStoreHandler([grid_plan |-> gp]).self
        /\ current_mda = 1
        /\ mdas = <<1>>
        /\ ret = [op |-> "_on_mda_started", args |-> <<gp.kind, 1>>,
                  raised |-> "", value |-> <<>>]
        /\ viewers = <<View>>
        /\ viewfinder = Viewfinder
        /\ _live_timer_id = <<>>
        /\ timers = {}
        /\ core = CMMCorePlus
        /\ queue = <<>>
        /\ ncalls = 0

EventIndexToStoreIndex ==
    \E idx \in Indices(Len(mda_data[1]._idx_to_pos)) :
        \E r \in {_event_index_to_store_index(mda_data[1], idx)} :
            /\ mda_data' = <<r.self>>
            /\ ret' = [op |-> "_event_index_to_store_index", args |-> <<idx, r.index>>,
                       raised |-> r.raised, value |-> r.value]
            /\ UNCHANGED <<current_mda, mdas, viewers, live, core, queue, ncalls>>

\* seq.sizes of the sequence a store is opened for
AxisSizes(self) ==
    {[i \in 1..Len(k) |->
        [label |-> k[i],
         size |-> IF k[i] = "g" THEN self._r * self._c
                  ELSE IF k[i] = "t" THEN 2 ELSE 3]] : k \in KeyLists \ {<<>>}}

GetShapeChunksLabels ==
    \E frame_shape \in FrameShapes, sizes \in AxisSizes(mda_data[1]) :
        /\ ret' = [op |-> "get_shape_chunks_labels", args |-> <<frame_shape, sizes>>,
                   raised |-> "",
                   value |-> get_shape_chunks_labels(mda_data[1], frame_shape, sizes)]
        /\ UNCHANGED <<mda_data, current_mda, mdas, viewers, live, core, queue, ncalls>>

NextHandler ==
    \/ EventIndexToStoreIndex
    \/ GetShapeChunksLabels

SpecHandler == InitHandler /\ [][NextHandler]_vars

---------------------------------------------------------------------------
(* Translations asked one after another of the handler of a sequence that  *)
(* is run, the calls counted                                               *)

InitCalls ==
    \E gp \in MdaPlans :
        /\ gp.kind = "GridRowsColumns"
        /\ mda_data = GridPlanTensorStoreHandler([grid_plan |-> gp]).self
        /\ current_mda = 1
        /\ mdas = <<1>>
        /\ ret = [op |-> "_on_mda_started", args |-> <<gp.kind, 1>>,
                  raised |-> "", value |-> <<>>]
        /\ viewers = <<View>>
        /\ viewfinder = Viewfinder
        /\ _live_timer_id = <<>>
        /\ timers = {}
        /\ core = CMMCorePlus
        /\ queue = <<>>
        /\ ncalls = 0

NextEventIndexToStoreIndex ==
    \E idx \in Indices(Len(mda_data[1]._idx_to_pos)) :
        \E r \in {_event_index_to_store_index(mda_data[1], idx)} :
            /\ ncalls' = min(ncalls + 1, 2)
            /\ mda_data' = <<r.self>>
            /\ ret' = [op |-> "_event_index_to_store_index", args |-> <<idx, r.index>>,
                       raised |-> r.raised, value |-> r.value]
            /\ UNCHANGED <<current_mda, mdas, viewers, live, core, queue>>

NextCalls ==
    \/ NextEventIndexToStoreIndex

SpecCalls == InitCalls /\ [][NextCalls]_vars

---------------------------------------------------------------------------
(* Viewfinder.set_data, called one time after another while the core's     *)
(* image format changes between the calls                                  *)

\* the (height, width) of the core's image
ImageShapes == {<<3, 5>>, <<3, 4>>, <<2, 5>>}

\* the images handed to set_data
Images == {1, 2}

\* the format of the core's image at a call of set_data
ViewfinderFormats ==
    {[height |-> hw[1], width |-> hw[2], bytes_per_pixel |-> b] :
        hw \in ImageShapes, b \in BytesPerPixel}

\* viewfinder.set_data(data) with the core's image in the format fmt; the
\* value recorded tells whether a new array was opened
SetData ==
    /\ \E data \in Images, fmt \in ViewfinderFormats :
          \E r \in {set_data(viewfinder, data, fmt)} :
              /\ viewfinder' = r.self
              /\ ret' = [op |-> "set_data", args |-> <<data, fmt>>,
                         raised |-> r.raised, value |-> <<r.opened>>]
    /\ UNCHANGED <<mda, _live_timer_id, timers, core, queue, ncalls>>

NextViewfinder ==
    \/ SetData

SpecViewfinder == Init /\ [][NextViewfinder]_vars

---------------------------------------------------------------------------
(* Vocabulary of the properties *)

\* the handler installed as APP.mda_data
Handler == mda_data[1]

HandlerPlan == Handler._sequence.grid_plan

NFields == Len(Handler._idx_to_pos)

Translated == ret.op = "_event_index_to_store_index"

\* the index handed to the last translation, and the caller's mapping after it
ArgIndex == ret.args[1]

ArgIndexAfter == ret.args[2]

Keys(idx) == {idx[i].key : i \in 1..Len(idx)}

\* the value bound to key k in an index that holds k once
ValueAt(idx, k) == idx[CHOOSE i \in 1..Len(idx) : idx[i].key = k].val

Count(idx, k) == Cardinality({i \in 1..Len(idx) : idx[i].key = k})

HasGrid == "g" \in Keys(ArgIndex)

ArgG == ValueAt(ArgIndex, "g").v

\* the subsequence of the entries of idx whose key is not in ks, in order
RECURSIVE Restrict(_, _)
Restrict(idx, ks) ==
    IF idx = <<>> THEN <<>>
    ELSE IF Head(idx).key \in ks THEN Restrict(Tail(idx), ks)
    ELSE <<Head(idx)>> \o Restrict(Tail(idx), ks)

SetMin(S) == CHOOSE m \in S : \A e \in S : m <= e

\* a slice lies inside [0, extent]
Inside(sl, extent) == 0 <= sl.start /\ sl.stop <= extent

RegionInside(idx) ==
    /\ Inside(ValueAt(idx, "x"), Handler._width)
    /\ Inside(ValueAt(idx, "y"), Handler._height)

---------------------------------------------------------------------------
(* The claims *)

\* C1: for every rows x columns plan and every grid index g in
\* 0..len(_idx_to_pos)-1, the region _event_index_to_store_index produces
\* lies inside the canvas: 0 <= x.start, x.stop <= _width, 0 <= y.start,
\* y.stop <= _height.
C1_RegionInsideCanvas ==
    (Translated /\ HasGrid /\ ArgG \in 0..(NFields - 1)) =>
        /\ ret.raised = ""
        /\ RegionInside(ret.value)

\* C2: after _evaluate_grid_plan, _min[0] is the minimum of pos.x and _min[1]
\* the minimum of pos.y over _idx_to_pos; for a grid of a single field _min
\* is that field's (x, y).
C2_MinIsMinimum ==
    mda_data # <<>> =>
        /\ Handler._idx_to_pos = iter_grid_positions(HandlerPlan)
        /\ Handler._min[1] = SetMin({Handler._idx_to_pos[i].x : i \in 1..NFields})
        /\ Handler._min[2] = SetMin({Handler._idx_to_pos[i].y : i \in 1..NFields})
        /\ NFields = 1 =>
               Handler._min = <<Handler._idx_to_pos[1].x, Handler._idx_to_pos[1].y>>

\* C2 witness: a handler of several fields whose minimum is not the origin
C2_Witness ==
    /\ mda_data # <<>>
    /\ NFields > 1
    /\ Handler._min[1] < 0
    /\ Handler._min[2] < 0

C4_OutOfRangeRaises ==
    [][(ret'.op = "_event_index_to_store_index"
        /\ "g" \in Keys(ret'.args[1])
        /\ ValueAt(ret'.args[1], "g").v \notin 0..(NFields - 1))
       => (ret'.raised = "IndexError" /\ mda_data' = mda_data)]_vars

\* C5 as stated: the result restricted to keys other than "x" and "y" equals
\* the input restricted to keys other than "g", and an index without "g" is
\* passed through unchanged.
C5_OtherAxesUntouched ==
    Translated =>
        /\ ret.raised = "" =>
               Restrict(ret.value, {"x", "y"}) = Restrict(ArgIndex, {"g"})
        /\ ~HasGrid => (ret.raised = "" /\ ret.value = ArgIndex)

\* C5 as amended: the result restricted to keys other than "x" and "y" equals
\* the input restricted to keys other than "g", and a non-empty index without
\* "g" is passed through unchanged (the empty index raises ValueError).
C5_OtherAxesUntouchedNonEmpty ==
    Translated =>
        /\ ret.raised = "" =>
               Restrict(ret.value, {"x", "y"}) = Restrict(ArgIndex, {"g"})
        /\ (~HasGrid /\ ArgIndex # <<>>) => (ret.raised = "" /\ ret.value = ArgIndex)
        /\ ArgIndex = <<>> => ret.raised = "ValueError"

\* C5 witness: a translated index with the grid axis between two other axes
C5_Witness ==
    /\ Translated
    /\ ret.raised = ""
    /\ Len(ArgIndex) = 3
    /\ ArgIndex[2].key = "g"
    /\ Len(ret.value) = 4

\* the base layout the last get_shape_chunks_labels call rewrote
ArgBase == base_shape_chunks_labels(ret.args[1], ret.args[2])

\* C6: for a base layout whose labels hold "g", get_shape_chunks_labels drops
\* the grid axis from shape, chunks and labels, the extent at "x" is the
\* canvas width and at "y" the canvas height, every other extent and every
\* chunk is that of the same axis in the base layout, and the three keep
\* equal length; a base layout without "g" is returned unchanged.
C6_LayoutRewritten ==
    ret.op = "get_shape_chunks_labels" =>
        LET v == ret.value
            at(l) == index(ArgBase.labels, l)
        IN  IF "g" \in Range(ArgBase.labels)
            THEN /\ v.labels = SelectSeq(ArgBase.labels, LAMBDA l : l # "g")
                 /\ Len(v.shape) = Len(v.labels)
                 /\ Len(v.chunks) = Len(v.labels)
                 /\ \A i \in 1..Len(v.labels) :
                        /\ v.chunks[i] = ArgBase.chunks[at(v.labels[i])]
                        /\ v.shape[i] =
                              IF v.labels[i] = "x" THEN Handler._width
                              ELSE IF v.labels[i] = "y" THEN Handler._height
                              ELSE ArgBase.shape[at(v.labels[i])]
            ELSE v = ArgBase

\* C6 witness: a rewritten layout whose grid axis came first of three axes,
\* on a canvas that differs from the frame
C6_Witness ==
    /\ ret.op = "get_shape_chunks_labels"
    /\ Len(ArgBase.labels) = 5
    /\ ArgBase.labels[1] = "g"
    /\ Len(ret.value.labels) = 4
    /\ <<Handler._height, Handler._width>> # ret.args[1]

\* C7: constructing the handler for a sequence whose grid plan is not a rows
\* x columns grid (no grid plan included) fails with the unsupported-plan
\* error and leaves mda_data, current_mda and mdas as they were.
C7_UnsupportedPlanLeavesNoState ==
    [][(ret'.op = "_on_mda_started"
        /\ ret'.args[1] # "GridRowsColumns"
        /\ _data_type(ret'.args[2]).raised = "")
       => (/\ ret'.raised = "ValueError"
           /\ mda_data' = mda_data
           /\ current_mda' = current_mda
           /\ mdas' = mdas)]_vars

\* C7 witness: a sequence without a grid plan was refused after an earlier
\* sequence had installed its handler and viewer
C7_Witness ==
    /\ ret.op = "_on_mda_started"
    /\ ret.args[1] = "None"
    /\ ret.raised = "ValueError"
    /\ mda_data # <<>>
    /\ mdas = <<1>>
    /\ current_mda = 1

\* the region translation computes for the grid value g of the last call
ArgRegion == grid_slices(Handler, ArgG)

\* C8: whenever the region computed for a frame falls outside the canvas
\* (x.stop > _width, y.stop > _height or a negative start), translation
\* fails with a region-out-of-bounds error instead of returning the region.
C8_OutOfBoundsRaises ==
    (/\ Translated /\ HasGrid
     /\ ArgG \in (-NFields)..(NFields - 1)
     /\ ~(Inside(ArgRegion[1], Handler._width) /\ Inside(ArgRegion[2], Handler._height)))
    => ret.raised = "RegionOutOfBounds"

\* C9: with zero overlap the canvas of a rows x columns plan is columns *
\* fov_width wide and rows * fov_height high (a 2 x 2 grid of fov 10 gives
\* 20 x 20).
C9_ZeroOverlapCanvas ==
    (mda_data # <<>> /\ HandlerPlan.overlap = <<0, 0>>) =>
        /\ Handler._width = TruncDiv(HandlerPlan.columns * HandlerPlan.fov_width, FovDen)
        /\ Handler._height = TruncDiv(HandlerPlan.rows * HandlerPlan.fov_height, FovDen)

\* the canvas the handler of plan gp gets
CanvasOf(gp) ==
    LET h == GridPlanTensorStoreHandler([grid_plan |-> gp]).self[1]
    IN  <<h._width, h._height>>

AsEvaluated == GridPlanTensorStoreHandler(Handler._sequence).self

\* C12: translation does not mutate shared state: after any translation
\* call, successful or failing, the handler's _idx_to_pos, _min, _fov, _width
\* and _height are what _evaluate_grid_plan set, and the caller's index
\* mapping is the one that was passed.
C12_TranslationMutatesNothing ==
    [][ret'.op = "_event_index_to_store_index" =>
          /\ mda_data' = mda_data
          /\ mda_data' = AsEvaluated
          /\ ret'.args[2] = ret'.args[1]]_vars

\* C12 witness: a failing translation made after an earlier translation
C12_Witness ==
    /\ Translated
    /\ ncalls >= 2
    /\ ret.raised = "IndexError"
    /\ ArgIndexAfter = ArgIndex
    /\ mda_data = AsEvaluated

\* C13: translation is deterministic: whatever translations were made
\* before it, a call returns (or raises) what the handler as constructed
\* returns for the same index, so two calls with the same index agree in
\* keys and slices.
C13_TranslationDeterministic ==
    Translated =>
        LET first == _event_index_to_store_index(AsEvaluated[1], ArgIndex)
        IN  /\ ret.raised = first.raised
            /\ ret.value = first.value

\* C13 witness: a second translation, of a field that is not at the canvas
\* origin
C13_Witness ==
    /\ Translated /\ HasGrid /\ ArgG \in 0..(NFields - 1)
    /\ ncalls >= 2
    /\ ret.raised = ""
    /\ ValueAt(ret.value, "x").start > 0
    /\ ValueAt(ret.value, "y").start > 0

---------------------------------------------------------------------------
(* Steps of the application *)

\* the main thread runs the queued call of handler op in this step
Handled(op) == queue # <<>> /\ Head(queue).op = op /\ queue' = Tail(queue)

\* _handle_snap runs in this step: queued, or called where the snap was made
SnapHandled ==
    \/ Handled("_handle_snap")
    \/ core'.image # core.image /\ queue' = queue

\* the data derived from the grid plan of handler h
Derived(h) == <<h._idx_to_pos, h._width, h._height, h._min, h._fov>>

\* the installed handler is that of the sequence the runner is running
OwnSequenceRunning ==
    /\ mda_data # <<>>
    /\ core.mda_running
    /\ Handler._sequence.uid = core.sequence[1].uid

C16_FrameGoesToOwnSequence ==
    ret.op = "_on_mda_frame" =>
        /\ ret.raised # "AttributeError"
        /\ mda_data # <<>>
        /\ store(Handler) = ret.args[2]
        /\ ret.raised = "" =>
               /\ ret.value[1] = ret.args[2]
               /\ viewers[ret.value[2]]._data_wrapper = <<ret.args[2]>>

C19_OneViewerPerStartedSequence ==
    [][/\ IF Handled("_on_mda_started") /\ ret'.raised = ""
          THEN /\ Len(viewers') = Len(viewers) + 1
               /\ mdas' = Append(mdas, Len(viewers'))
          ELSE mdas' = mdas /\ Len(viewers') = Len(viewers)
       /\ current_mda' = IF mdas' = <<>> THEN 0 ELSE mdas'[Len(mdas')]
       /\ (core.mda_running /\ ~core'.mda_running) =>
              (mdas' = mdas /\ current_mda' = current_mda /\ mda_data' = mda_data)]_vars

\* C19 witness: the second sequence has run and finished, both sequences
\* with a viewer
C19_Witness ==
    /\ ret.op = "_on_mda_finished"
    /\ ret.args[1] = MaxMdas
    /\ mdas = <<1, 2>>
    /\ current_mda = 2
    /\ Handler._sequence.uid = 2

\* C20: _on_mda_frame first hands the frame to the store handler (nothing
\* else happens if that raises), then binds the current viewer to the
\* handler's store only if the viewer has no data wrapper yet, so on the
\* first frame and not on later ones, then sets the viewer's current index to
\* the event index with "g" removed and every other axis unchanged.
C20_FrameBindsOnceAndSetsIndex ==
    [][Handled("_on_mda_frame") =>
          IF ret'.raised # ""
          THEN viewers' = viewers
          ELSE LET ev == Head(queue).event
                   v == viewers[current_mda]
                   w == viewers'[current_mda]
               IN  /\ current_mda' = current_mda
                   /\ \A i \in DOMAIN viewers : i # current_mda => viewers'[i] = viewers[i]
                   /\ ret'.value[3] = (v._data_wrapper = <<>>)
                   /\ w._data_wrapper =
                         IF v._data_wrapper = <<>> THEN <<store(mda_data'[1])>>
                         ELSE v._data_wrapper
                   /\ w.current_index = Restrict(ev.index, {"g"})]_vars

\* C20 witness: a later frame of a sequence was displayed by the viewer bound
\* on an earlier frame, its index the time point alone
C20_Witness ==
    /\ ret.op = "_on_mda_frame" /\ ret.raised = ""
    /\ ret.value[3] = FALSE
    /\ "g" \in Keys(ret.args[1])
    /\ viewers[current_mda]._data_wrapper = <<store(Handler)>>
    /\ Keys(viewers[current_mda].current_index) = {"t"}

\* C17: under any interleaving of continuousSequenceAcquisitionStarted and
\* sequenceAcquisitionStopped events, live_view is true exactly when
\* _live_timer_id is not None, at most one live timer is running, and once
\* the camera was stopped last and no start handler is queued no live timer
\* is running.
C17_LiveTimerConsistent ==
    /\ viewfinder.live_view <=> (_live_timer_id # <<>>)
    /\ Cardinality(timers) <= 1
    /\ (/\ ~core.acquiring
        /\ \A i \in 1..Len(queue) : queue[i].op # "_start_live_viewer")
       => timers = {}

\* C21: after every call of Viewfinder.set_data, ts_shape is the image's
\* (height, width) and bytes_per_pixel is the core's bytes per pixel, and a
\* new backing array was opened (the viewer bound to it) exactly when there
\* was no array yet or the height, the width or the bytes per pixel differ
\* from those of the previous call; otherwise the array is reused
C21_ArrayFollowsImageFormat ==
    [][ret'.op = "set_data" =>
          LET fmt == ret'.args[2]
              changed == ret.op = "set_data" /\ ret.args[2] # fmt
          IN  /\ viewfinder'.ts_shape = <<fmt.height, fmt.width>>
              /\ viewfinder'.bytes_per_pixel = fmt.bytes_per_pixel
              /\ ret'.value[1] <=> (viewfinder.ts_array = <<>> \/ changed)
              /\ ~ret'.value[1] =>
                     /\ viewfinder.ts_array # <<>>
                     /\ viewfinder'.ts_array[1].shape = viewfinder.ts_array[1].shape
                     /\ viewfinder'.ts_array[1].dtype = viewfinder.ts_array[1].dtype]_vars

====
